---- MODULE Spec2Model ----
(***************************************************************************)
(* Change-data-capture engine of airflow-cdc-playground: the three         *)
(* strategies (timestamp, hash, hash-partition), the state slots they keep *)
(* in the object store and the snapshot writer that CDCService.process_table*)
(* calls after a successful strategy run.                                  *)
(*                                                                         *)
(* One behaviour follows one configured table (its method is fixed in      *)
(* Init).  Runs of that table are sequential: process_table is entered     *)
(* from idle, and the source table is edited only between runs.            *)
(***************************************************************************)
EXTENDS Integers, Sequences, FiniteSets, TLC

\* ------------------------------------------------------------------ bounds
MaxPk == 2            \* primary keys of the source table are 1..MaxPk
MaxTs == 11           \* timestamp values are 10..MaxTs, and null
BatchSize == 1        \* global_settings.batch_size of the modelled config
PartitionSize == 1    \* partition_size of the modelled table config
MaxTick == 2          \* the clock reads 0..MaxTick ticks
TicksPerSecond == 2   \* clock readings that fall in one second
MaxCalls == 2         \* calls of the snapshot writer followed by itself
IntBits == 4          \* width of the database's INTEGER type
MaxPartitions == 4    \* partition counts tried on one key are 1..MaxPartitions
MaxTotal == 8         \* row counts tried are 0..MaxTotal
MaxPartitionSize == 4 \* partition sizes tried are 1..MaxPartitionSize
MaxTables == 2        \* tables one run of the orchestrator goes through
MaxDagRuns == 2       \* DAG runs the scheduler starts

\* ------------------------------------------------------------------ values
\* A cell of a row as the driver hands it to Python: an int, a str, a
\* timestamp or None.
IntV(n) == [t |-> "int", n |-> n, s |-> <<>>]
StrV(s) == [t |-> "str", n |-> 0, s |-> s]
TsV(n) == [t |-> "ts", n |-> n, s |-> <<>>]
NullV == [t |-> "null", n |-> 0, s |-> <<>>]

\* A float or pandas.NaT, the cells pandas makes of a column that holds a
\* null: s is its str().
PandasV(text) == [t |-> "pandas", n |-> 0, s |-> text]

\* Characters in code-point order, for Python's string comparison.
Alphabet == <<"-", ".", "0", "1", "2", "3", "4", "5", "6", "7", "8", "9",
              "N", "T", "a", "e", "n", "o", "x", "|">>
Ord(c) == CHOOSE i \in 1..Len(Alphabet) : Alphabet[i] = c
Digit(d) == Alphabet[d + 3]
DigitVal(c) == Ord(c) - 3

RECURSIVE NatStr(_)
NatStr(n) == IF n < 10 THEN <<Digit(n)>> ELSE NatStr(n \div 10) \o <<Digit(n % 10)>>

\* str(x) of Python for the cell types above.  A timestamp renders with a
\* fixed width (pandas: 'YYYY-MM-DD HH:MM:SS'), here two digits.
PyStr(v) ==
  CASE v.t = "int" -> IF v.n < 0 THEN <<"-">> \o NatStr(0 - v.n) ELSE NatStr(v.n)
    [] v.t = "str" -> v.s
    [] v.t = "ts" -> <<Digit(v.n \div 10), Digit(v.n % 10)>>
    [] v.t = "null" -> <<"N", "o", "n", "e">>
    [] v.t = "pandas" -> v.s

\* s > t on Python strings: lexicographic by code point.
RECURSIVE StrGt(_, _)
StrGt(s, t) ==
  IF s = <<>> THEN FALSE
  ELSE IF t = <<>> THEN TRUE
  ELSE IF Ord(Head(s)) # Ord(Head(t)) THEN Ord(Head(s)) > Ord(Head(t))
  ELSE StrGt(Tail(s), Tail(t))

\* The database reads a quoted timestamp literal back as a timestamp; a text
\* that is no timestamp makes the query fail.
IsDigit(c) == Ord(c) \in Ord("0")..Ord("9")
IsTsLiteral(s) == Len(s) = 2 /\ IsDigit(s[1]) /\ IsDigit(s[2])
TsParse(s) == 10 * DigitVal(s[1]) + DigitVal(s[2])

RECURSIVE Join(_, _)
Join(sep, parts) ==
  IF parts = <<>> THEN <<>>
  ELSE IF Len(parts) = 1 THEN parts[1]
  ELSE parts[1] \o sep \o Join(sep, Tail(parts))

\* hashlib.md5(...).hexdigest(): a digest of the serialized text; two
\* different texts are taken to have different digests.
md5(text) == [md5 |-> text]

\* ------------------------------------------------------------------ config
Methods == {"timestamp", "hash", "hash-partition"}
primary_key == "id"
timestamp_column == "updated_at"
hash_columns == <<"name">>
snapshot_enabled == TRUE

\* Column names of a row in ascending order (sorted(row_dict.items())).
ColumnOrder == <<"id", "name", "updated_at">>
SortedColumns(row) == SelectSeq(ColumnOrder, LAMBDA c : c \in DOMAIN row)

\* ------------------------------------------------------------------ source
Pks == 1..MaxPk
TsVals == 10..MaxTs
NameVals == {NullV, StrV(<<>>), StrV(<<"x">>)}
HashRows == {[id |-> IntV(p), name |-> v] : p \in Pks, v \in NameVals}
TsCells == {TsV(n) : n \in TsVals} \cup {NullV}
TsRows == {[id |-> IntV(p), updated_at |-> v] : p \in Pks, v \in TsCells}
RowsOf(m) == IF m = "timestamp" THEN TsRows ELSE HashRows

Ids(rows) == {r.id.n : r \in rows}
RowOf(rows, p) == CHOOSE r \in rows : r.id.n = p

\* The rows of a set in ascending primary-key order (the order a batch or a
\* result set is iterated in).
RECURSIVE InOrder(_)
InOrder(rows) ==
  IF rows = {} THEN <<>>
  ELSE LET r == CHOOSE x \in rows : \A y \in rows : x.id.n <= y.id.n
       IN <<r>> \o InOrder(rows \ {r})

SeqSet(q) == {q[i] : i \in 1..Len(q)}

\* ------------------------------------------------------------------ state store
None == [none |-> TRUE]
EmptyMap == <<>>
EmptyChanges == [added |-> <<>>, modified |-> <<>>, deleted |-> <<>>]

HashKey == [slot |-> "hash_state", i |-> 0, of |-> 0]
TsKey == [slot |-> "timestamp_state", i |-> 0, of |-> 0]
PartKey(i, n) == [slot |-> "partition", i |-> i, of |-> n]

\* Outcomes of one object-store call as its caller sees them.  A get ends
\* "ok" or with an S3Error that retrieve_state turns into None (any other
\* exception leaves the strategy: RaiseInStrategy); a put ends "ok" or with an
\* exception that store_state turns into False.
GetOutcomes == {"ok", "s3error"}
PutOutcomes == {"ok", "fail"}

\* StorageManager.retrieve_state: the blob, or None for a missing key and for
\* any S3Error.
retrieve_state(st, key, outcome) ==
  IF outcome = "ok" /\ key \in DOMAIN st THEN st[key] ELSE None

\* StorageManager.store_state: the put, or nothing when it fails (the
\* exception is caught and False returned).
store_state(st, key, data, outcome) ==
  IF outcome = "ok"
  THEN [k \in DOMAIN st \cup {key} |-> IF k = key THEN data ELSE st[k]]
  ELSE st

\* previous_state.get("row_hashes", {}) if previous_state else {}
RowHashesOf(state) ==
  IF state = None THEN EmptyMap
  ELSE IF "row_hashes" \in DOMAIN state THEN state.row_hashes ELSE EmptyMap

\* ------------------------------------------------------------------ fingerprint
\* str(val if val is not None else "")
HashText(v) == IF v.t = "null" THEN <<>> ELSE PyStr(v)

\* HashCDCStrategy._calculate_row_hash (the same text as
\* HashPartitionCDCStrategy._calculate_row_hash).
calculate_row_hash(row_dict, cols) ==
  LET used == IF "*" \in SeqSet(cols)
              THEN SortedColumns(row_dict)
              ELSE SelectSeq(cols, LAMBDA c : c \in DOMAIN row_dict)
      hash_values == [i \in 1..Len(used) |-> HashText(row_dict[used[i]])]
  IN md5(Join(<<"|">>, hash_values))

\* pk_value = str(row_dict.get(primary_key, ""))
PkValue(row_dict) ==
  IF primary_key \in DOMAIN row_dict THEN PyStr(row_dict[primary_key]) ELSE <<>>

MapPut(f, k, v) == [x \in DOMAIN f \cup {k} |-> IF x = k THEN v ELSE f[x]]

\* The loop body of HashCDCStrategy.process / _process_partition over the
\* rows of one batch or result set: acc is [cur, changes].
RECURSIVE CompareRowsBy(_, _, _, _)
CompareRowsBy(cols, rows, prev, acc) ==
  IF rows = <<>> THEN acc
  ELSE
    LET row_dict == Head(rows)
        pk_value == PkValue(row_dict)
        row_hash == calculate_row_hash(row_dict, cols)
        next ==
          IF pk_value = <<>> THEN acc
          ELSE [cur |-> MapPut(acc.cur, pk_value, row_hash),
                changes |->
                  IF pk_value \in DOMAIN prev
                  THEN IF row_hash # prev[pk_value]
                       THEN [acc.changes EXCEPT !.modified = Append(@, row_dict)]
                       ELSE acc.changes
                  ELSE [acc.changes EXCEPT !.added = Append(@, row_dict)]]
    IN CompareRowsBy(cols, Tail(rows), prev, next)

\* The same loop with the hash_columns of the modelled table configuration.
CompareRows(rows, prev, acc) == CompareRowsBy(hash_columns, rows, prev, acc)

\* row.to_dict() on a row of a pandas chunk (pd.read_sql, batch.iterrows).
\* A column that holds a text has dtype object and keeps its cells.  Else a
\* column that holds a null is float64 or datetime64[ns]: the null is NaN or
\* NaT and an integer is a float ('1.0'); a column of nulls only keeps None.
to_dict(row, chunk) ==
  [c \in DOMAIN row |->
     LET column == {r[c] : r \in {x \in chunk : c \in DOMAIN x}}
         has(t) == \E v \in column : v.t = t
     IN IF has("str") \/ ~has("null") THEN row[c]
        ELSE IF row[c].t = "int" THEN PandasV(PyStr(row[c]) \o <<".", "0">>)
        ELSE IF row[c].t # "null" THEN row[c]
        ELSE IF has("ts") THEN PandasV(<<"N", "a", "T">>)
        ELSE IF has("int") THEN PandasV(<<"n", "a", "n">>)
        ELSE row[c]]

\* The keys of a map in one fixed order (ascending as strings).
KeysInOrder(f) ==
  LET ks == DOMAIN f
      pick[S \in SUBSET ks] ==
        IF S = {} THEN <<>>
        ELSE LET k == CHOOSE x \in S : \A y \in S : ~StrGt(x, y) \/ x = y
             IN <<k>> \o pick[S \ {k}]
  IN pick[ks]

\* Variant: every key of prev is reported deleted, seen by the scan or not.
DeletedOf_all(prev, cur) ==
  LET ks == KeysInOrder(prev)
  IN [i \in 1..Len(ks) |-> [primary_key |-> primary_key, value |-> ks[i]]]

\* "Find deleted rows": the keys of prev that the scan did not see.
DeletedOf(prev, cur) ==
  LET ks == SelectSeq(KeysInOrder(prev), LAMBDA k : k \notin DOMAIN cur)
  IN [i \in 1..Len(ks) |-> [primary_key |-> primary_key, value |-> ks[i]]]

\* ------------------------------------------------------------------ timestamp
\* None where Python expects a str (last_timestamp, latest_timestamp).
NoneStr == <<"<None>">>

\* last_state.get("last_timestamp") if last_state else None
LastTimestampOf(state) ==
  IF state = None THEN NoneStr
  ELSE IF "last_timestamp" \in DOMAIN state THEN state.last_timestamp ELSE NoneStr

\* Variant: the predicate is >= instead of >.
WhereClause_ge(row, last) ==
  IF last = NoneStr \/ last = <<>> THEN TRUE
  ELSE row[timestamp_column].t = "ts" /\ row[timestamp_column].n >= TsParse(last)

\* if last_timestamp:
HasWhereClause(last) == last # NoneStr /\ last # <<>>

\* where_clause = f"{timestamp_column} > '{last_timestamp}'" when last_timestamp
\* is set, evaluated by the database on the column's values (a null cell is
\* greater than nothing).
WhereClause(row, last) ==
  IF ~HasWhereClause(last) THEN TRUE
  ELSE row[timestamp_column].t = "ts" /\ row[timestamp_column].n > TsParse(last)

MaxOf(S) == CHOOSE x \in S : \A y \in S : y <= x

\* str(batch[timestamp_column].max()): max() skips the null cells, and is NaT
\* for a batch that has no other.
NaT == <<"N", "a", "T">>
BatchMaxTimestamp(batch) ==
  LET seen == {r[timestamp_column].n : r \in {x \in batch : x[timestamp_column].t = "ts"}}
  IN IF seen = {} THEN NaT ELSE PyStr(TsV(MaxOf(seen)))

\* if not latest_timestamp or batch_max_timestamp > latest_timestamp
TrackLatest(latest, batch_max) ==
  IF latest = NoneStr \/ latest = <<>> \/ StrGt(batch_max, latest)
  THEN batch_max ELSE latest

\* ------------------------------------------------------------------ hash-partition
Abs(n) == IF n < 0 THEN 0 - n ELSE n

\* The same count with the division rounding down.
NumPartitions_floor(total_rows, partition_size) ==
  LET n == total_rows \div partition_size
  IN IF n < 1 THEN 1 ELSE n

\* num_partitions = max(1, (total_rows + partition_size - 1) // partition_size)
NumPartitions(total_rows, partition_size) ==
  LET n == (total_rows + partition_size - 1) \div partition_size
  IN IF n < 1 THEN 1 ELSE n

\* The INTEGER type of the database: two's complement of IntBits bits.
IntMin == 0 - 2^(IntBits - 1)
IntMax == 2^(IntBits - 1) - 1

\* MOD(a, n) of SQL: the result has the sign of a.
SqlMod(a, n) == IF a < 0 THEN 0 - ((0 - a) % n) ELSE a % n

\* COALESCE(pk, 0)
Coalesce(row) == IF row[primary_key].t = "null" THEN 0 ELSE row[primary_key].n

\* CAST(... AS INTEGER) of a value outside the type and ABS of the least
\* INTEGER raise "integer out of range": the query fails.
PartitionRaises(row) ==
  Coalesce(row) < IntMin \/ Coalesce(row) > IntMax \/ Coalesce(row) = IntMin

\* MOD(ABS(CAST(COALESCE(pk, 0) AS INTEGER)), total_partitions) = partition_id
PartitionClause(row, total_partitions, id) ==
  ~PartitionRaises(row) /\ SqlMod(Abs(Coalesce(row)), total_partitions) = id

\* "changes": {"added": len(...), "modified": len(...), "deleted": len(...)}
ChangeCounts(ch) ==
  [added |-> Len(ch.added), modified |-> Len(ch.modified), deleted |-> Len(ch.deleted)]

\* changes[...].extend(partition_changes.get(..., []))
MergeChanges(ch, part) ==
  [added |-> ch.added \o part.added,
   modified |-> ch.modified \o part.modified,
   deleted |-> ch.deleted \o part.deleted]

\* ------------------------------------------------------------------ snapshot writer
Formats == {"json", "parquet", "csv"}
Buckets == <<"added", "modified", "deleted">>
datasource_name == "ds"
table_name == "t"

\* cdc_result.get(key, [])
GetList(res, key) == IF key \in DOMAIN res THEN res[key] ELSE <<>>

\* CDCService._save_snapshot: the ChangeSet handed to the snapshot writer.
SnapshotChanges(cdc_result) ==
  [added |-> GetList(cdc_result, "added"),
   modified |-> GetList(cdc_result, "modified"),
   deleted |-> GetList(cdc_result, "deleted")]

\* SnapshotService._has_changes
has_changes(ch) == Len(ch.added) > 0 \/ Len(ch.modified) > 0 \/ Len(ch.deleted) > 0

\* timestamp.strftime("%Y%m%d_%H%M%S"): a reading of the clock (in ticks) cut
\* to the second.
strftime(timestamp) == timestamp \div TicksPerSecond

\* The same key with every artifact of a run named alike.
generate_filename_plain(ext, timestamp, suffix) ==
  [dir |-> <<"snapshots", datasource_name, table_name>>,
   stamp |-> strftime(timestamp), suffix |-> "data", ext |-> ext, tail |-> ""]

\* SnapshotStrategy._generate_filename:
\* snapshots/{datasource}/{table}/{stamp}_{suffix}.{ext}, kept as its parts
\* (tail is what store_snapshot appends for a metadata sibling).
generate_filename(ext, timestamp, suffix) ==
  [dir |-> <<"snapshots", datasource_name, table_name>>,
   stamp |-> strftime(timestamp), suffix |-> suffix, ext |-> ext, tail |-> ""]

\* filename.replace('.parquet', '.json')
ReplaceExt(file_path, old, new) ==
  IF file_path.ext = old THEN [file_path EXCEPT !.ext = new] ELSE file_path

\* The csv strategy: data files end in .csv, the summary manifest is JSON,
\* and csv has no metadata sibling.
CsvSummaryFilename(timestamp) == generate_filename("json", timestamp, "summary")
CsvHasSibling == FALSE

\* The key of the summary manifest of each strategy.
SummaryFilename(fmt, timestamp) ==
  CASE fmt = "json" -> generate_filename("json", timestamp, "summary")
    [] fmt = "parquet" ->
         ReplaceExt(generate_filename("parquet", timestamp, "summary"),
                    "parquet", "json")
    [] fmt = "csv" -> CsvSummaryFilename(timestamp)

\* The key of the store_snapshot call for a bucket or for the summary.
FilenameOf(fmt, timestamp, b) ==
  IF b = "summary" THEN SummaryFilename(fmt, timestamp)
  ELSE generate_filename(fmt, timestamp, b)

\* The payload of a bucket file (json: the dict with "data"; parquet: the
\* records of the DataFrame with its _cdc_operation column).
DataPayload(b, rows) == [operation |-> b, count |-> Len(rows), data |-> rows]

\* summary_data
SummaryPayload(fmt, saved_files, ch) ==
  [format |-> fmt, files |-> saved_files,
   summary |-> [added |-> Len(ch.added), modified |-> Len(ch.modified),
                deleted |-> Len(ch.deleted)]]

\* json.dumps(data): a row cell that is a timestamp is no JSON type and makes
\* it raise TypeError; the entries of deleted hold two strings, the summary
\* holds strings and counts.
JsonSerializable(data) ==
  \/ "operation" \notin DOMAIN data
  \/ data.operation = "deleted"
  \/ \A i \in 1..Len(data.data) :
       \A c \in DOMAIN data.data[i] : data.data[i][c].t # "ts"

\* The formats whose handler returns a metadata stream next to the data.
HasSibling(format_type) ==
  CASE format_type = "parquet" -> TRUE
    [] format_type = "json" -> FALSE
    [] format_type = "csv" -> CsvHasSibling

\* How one store_snapshot call ends: both puts went through, the first put
\* raised, or (with a metadata sibling) the sibling was put and the put of the
\* data raised.
OutcomesOf(fmt) ==
  IF fmt \in Formats /\ HasSibling(fmt) THEN {"ok", "fail", "fail_main"} ELSE {"ok", "fail"}

\* StorageManager.store_snapshot: the handler is picked by the extension of
\* file_path; whatever is raised, by the handler or by put_object, is caught
\* and False returned.  Yields the puts made, in order.
store_snapshot(file_path, data, outcome) ==
  LET format_type == file_path.ext
      sibling == <<[key |-> [file_path EXCEPT !.tail = "_metadata"],
                    data |-> [row_count |-> data.count]]>>
  IN IF format_type = "json" /\ ~JsonSerializable(data)
     THEN [ok |-> FALSE, puts |-> <<>>]
     ELSE IF HasSibling(format_type)
     THEN CASE outcome = "ok" ->
                 [ok |-> TRUE,
                  puts |-> sibling \o <<[key |-> file_path, data |-> data]>>]
            [] outcome = "fail_main" -> [ok |-> FALSE, puts |-> sibling]
            [] outcome = "fail" -> [ok |-> FALSE, puts |-> <<>>]
     ELSE IF outcome = "ok"
          THEN [ok |-> TRUE, puts |-> <<[key |-> file_path, data |-> data]>>]
          ELSE [ok |-> FALSE, puts |-> <<>>]

\* The buckets a strategy makes a file of: if changes.get(b)
NonEmptyBuckets(ch) == SelectSeq(Buckets, LAMBDA b : Len(ch[b]) > 0)

\* The store_snapshot calls save_snapshot makes, in order.
Attempted(ch) == NonEmptyBuckets(ch) \o <<"summary">>

RECURSIVE Flatten(_)
Flatten(seqs) == IF seqs = <<>> THEN <<>> ELSE Head(seqs) \o Flatten(Tail(seqs))

\* JsonSnapshotStrategy.save_snapshot and ParquetSnapshotStrategy.save_snapshot
\* (the csv strategy follows the same protocol): outcome tells how each
\* store_snapshot call ends.  Yields the puts made, in order, and the result.
save_snapshot(fmt, ch, timestamp, outcome) ==
  LET calls == NonEmptyBuckets(ch)
      stored(b) == store_snapshot(FilenameOf(fmt, timestamp, b),
                                  DataPayload(b, ch[b]), outcome[b])
      done == SelectSeq(calls, LAMBDA b : stored(b).ok)
      data_files == [i \in 1..Len(done) |-> FilenameOf(fmt, timestamp, done[i])]
      summary == store_snapshot(SummaryFilename(fmt, timestamp),
                                SummaryPayload(fmt, data_files, ch),
                                outcome["summary"])
      saved_files == data_files \o
                     (IF summary.ok THEN <<SummaryFilename(fmt, timestamp)>>
                      ELSE <<>>)
  IN [puts |-> Flatten([i \in 1..Len(calls) |-> stored(calls[i]).puts])
                 \o summary.puts,
      result |-> [status |-> "success", format |-> fmt,
                  files_saved |-> saved_files, total_files |-> Len(saved_files)]]

\* SnapshotStrategyFactory.create_strategy: a strategy for these, None
\* otherwise.
Supported(format_type) == format_type \in Formats

\* SnapshotService.save_changes_snapshot
save_changes_snapshot(ch, fmt, timestamp, outcome) ==
  IF ~has_changes(ch)
  THEN [puts |-> <<>>, result |-> [status |-> "skipped"]]
  ELSE IF ~Supported(fmt)
  THEN [puts |-> <<>>, result |-> [status |-> "error"]]
  ELSE save_snapshot(fmt, ch, timestamp, outcome)

\* put_object of each put, in order: a key that exists is overwritten.
RECURSIVE PutAll(_, _)
PutAll(objs, puts) ==
  IF puts = <<>> THEN objs
  ELSE PutAll([k \in DOMAIN objs \cup {Head(puts).key} |->
                 IF k = Head(puts).key THEN Head(puts).data ELSE objs[k]],
              Tail(puts))

\* ------------------------------------------------------------------ table configuration
\* "method": null in the configuration file.
NullMethod == "<null>"

\* The entry of a table of method m with everything its method needs.
FullConfig(m) ==
  [method |-> m, datasource |-> datasource_name, primary_key |-> primary_key,
   timestamp_column |-> timestamp_column, hash_columns |-> hash_columns]

\* The entries a configuration file can hold for such a table: the full one,
\* none, or one with the method unknown, null or missing ("" is what .get
\* yields then) or with an entry its method needs missing or empty.
TableConfigs(m) ==
  {None, FullConfig(m), [FullConfig(m) EXCEPT !.datasource = ""]}
    \cup {[FullConfig(m) EXCEPT !.method = x] : x \in {"bogus", "", NullMethod}}
    \cup (IF m = "timestamp"
          THEN {[FullConfig(m) EXCEPT !.timestamp_column = ""]}
          ELSE {[FullConfig(m) EXCEPT !.primary_key = ""],
                [FullConfig(m) EXCEPT !.hash_columns = <<>>]})

\* CDCService.process_table, lines 47-69, up to strategy.process: an error
\* result, an AttributeError from None.lower() (line 52 is outside the try),
\* or the strategy of the method.
Dispatch(cfg) ==
  IF cfg = None THEN "error"
  ELSE IF cfg.method = NullMethod THEN "raise"
  ELSE IF cfg.datasource = "" THEN "error"
  ELSE IF cfg.method \notin Methods THEN "error"
  ELSE "process"

\* The same checks with the primary key not looked at.
StrategyConfigOk_nopk(cfg) ==
  IF cfg.method = "timestamp" THEN cfg.timestamp_column # ""
  ELSE cfg.hash_columns # <<>>

\* The first lines of each strategy's process: the entries it needs.
StrategyConfigOk(cfg) ==
  IF cfg.method = "timestamp" THEN cfg.timestamp_column # ""
  ELSE cfg.hash_columns # <<>> /\ cfg.primary_key # ""

\* ------------------------------------------------------------------ state
VARIABLES
  method,            \* the method the table this behaviour follows is meant for
  table_config,      \* its entry under "tables" of the configuration file
  src,               \* the source table: a set of rows with distinct primary keys
  store,             \* object store, state slots: key -> blob
  snapshots,         \* object store, snapshots/: the objects the current run has put
  pc,                \* where process_table is: idle, read, count, part, scan, snapshot, done
  previous_hashes,   \* HashCDCStrategy.process locals
  current_hashes,
  changes,           \* changes = {"added": [], "modified": [], "deleted": []}
  cursor,            \* rows the open query has not yielded yet
  last_timestamp,    \* TimestampCDCStrategy.process locals
  latest_timestamp,
  ts_changes,        \* its list "changes"
  partition_id,      \* HashPartitionCDCStrategy.process locals
  num_partitions,
  result,            \* what process_table returns (None while it runs)
  \* history, read by the properties only
  events,            \* the I/O steps of the current run, in order
  start_store,       \* store as it was when the current run began
  basis,             \* the table content behind the stored hash_state
  prev_basis,        \* basis of the state the current run read
  settled,           \* the run before this one returned status success and the
                     \* source table was not edited since
  lost,              \* rows whose delta a crash dropped, unchanged since
  emitted,           \* rows earlier timestamp runs returned, unchanged since
  io_failed,         \* a read or write of timestamp_state has failed
  \* the snapshot writer and its clock
  snapshot_format,   \* table_config.get("snapshot_format", self.snapshot_format)
  now,               \* the clock datetime.now() reads, in ticks
  archive,           \* object store, snapshots/: the keys every call so far has put
  call,              \* the last save_changes_snapshot call: arguments, puts, result
  calc,              \* the last partition computation: arguments and outcome
  touched,           \* state slots the hash-partition run under way has read
                     \* and has written; last: the slots the run before it
                     \* went through (with those of the run before that one
                     \* when it did not finish); old: the slots it read that
                     \* hold what a run older than these left
  run,               \* the table loop under way: its tables, its report
  dag                \* the DAG runs the scheduler has started: the state of their tasks

locals == <<previous_hashes, current_hashes, changes, cursor, last_timestamp,
            latest_timestamp, ts_changes, partition_id, num_partitions>>
history == <<basis, prev_basis, settled, lost, emitted, io_failed>>
writer == <<snapshot_format, now, archive, call, calc, run, dag>>
env == <<writer, touched>>
core == <<method, table_config, src, store, snapshots, pc, locals, result, events, start_store,
          history, touched>>

NoTouch == [read |-> {}, written |-> {}, last |-> {}, old |-> {}]
vars == <<method, table_config, src, store, snapshots, pc, locals, result, events, start_store,
          history, env>>

NoBasis == [set |-> FALSE, rows |-> {}]

ResetLocals ==
  /\ previous_hashes' = EmptyMap
  /\ current_hashes' = EmptyMap
  /\ changes' = EmptyChanges
  /\ cursor' = {}
  /\ last_timestamp' = NoneStr
  /\ latest_timestamp' = NoneStr
  /\ ts_changes' = <<>>
  /\ partition_id' = 0
  /\ num_partitions' = 0

Init ==
  /\ method \in Methods
  /\ table_config \in TableConfigs(method)
  /\ src = {}
  /\ store = <<>>
  /\ snapshots = <<>>
  /\ pc = "idle"
  /\ previous_hashes = EmptyMap
  /\ current_hashes = EmptyMap
  /\ changes = EmptyChanges
  /\ cursor = {}
  /\ last_timestamp = NoneStr
  /\ latest_timestamp = NoneStr
  /\ ts_changes = <<>>
  /\ partition_id = 0
  /\ num_partitions = 0
  /\ result = None
  /\ events = <<>>
  /\ start_store = <<>>
  /\ basis = NoBasis
  /\ prev_basis = NoBasis
  /\ settled = FALSE
  /\ lost = {}
  /\ emitted = {}
  /\ io_failed = FALSE
  /\ snapshot_format \in Formats
  /\ now = 0
  /\ archive = {}
  /\ call = None
  /\ calc = None
  /\ touched = NoTouch
  /\ run = None
  /\ dag = <<>>

\* Consecutive steps of one kind are one entry.
AddEvent(ev, e) == IF ev # <<>> /\ ev[Len(ev)] = e THEN ev ELSE Append(ev, e)

ErrorResult == [status |-> "error"]

\* No result: an exception left process_table.
Raised == [status |-> "raised"]

\* ------------------------------------------------------------------ source edits
\* The source table changes between runs: a row is inserted, updated, deleted.
Insert ==
  /\ pc = "idle"
  /\ \E r \in RowsOf(method) :
       /\ r.id.n \notin Ids(src)
       /\ src' = src \cup {r}
       /\ lost' = {x \in lost : x.id.n # r.id.n}
       /\ emitted' = {x \in emitted : x.id.n # r.id.n}
  /\ settled' = FALSE
  /\ UNCHANGED <<env, method, table_config, store, snapshots, pc, locals, result, events, start_store,
                 basis, prev_basis, io_failed>>

Update ==
  /\ pc = "idle"
  /\ \E r \in RowsOf(method) :
       /\ r.id.n \in Ids(src)
       /\ r \notin src
       /\ src' = (src \ {RowOf(src, r.id.n)}) \cup {r}
       /\ lost' = {x \in lost : x.id.n # r.id.n}
       /\ emitted' = {x \in emitted : x.id.n # r.id.n}
  /\ settled' = FALSE
  /\ UNCHANGED <<env, method, table_config, store, snapshots, pc, locals, result, events, start_store,
                 basis, prev_basis, io_failed>>

Delete ==
  /\ pc = "idle"
  /\ \E r \in src :
       /\ src' = src \ {r}
       /\ lost' = {x \in lost : x.id.n # r.id.n}
       /\ emitted' = {x \in emitted : x.id.n # r.id.n}
  /\ settled' = FALSE
  /\ UNCHANGED <<env, method, table_config, store, snapshots, pc, locals, result, events, start_store,
                 basis, prev_basis, io_failed>>

\* ------------------------------------------------------------------ process_table
\* CDCService.process_table up to strategy.process(...): the table has a
\* configuration, a datasource and a supported method.
Start ==
  /\ pc = "idle"
  /\ pc' = IF Dispatch(table_config) # "process" THEN "done"
           ELSE IF method = "hash-partition" THEN "count" ELSE "read"
  /\ ResetLocals
  /\ result' = CASE Dispatch(table_config) = "process" -> None
                  [] Dispatch(table_config) = "error" -> ErrorResult
                  [] Dispatch(table_config) = "raise" -> Raised
  /\ events' = <<>>
  /\ start_store' = store
  /\ snapshots' = <<>>
  /\ prev_basis' = NoBasis
  /\ UNCHANGED <<env, method, table_config, src, store, basis, settled, lost, emitted,
                 io_failed>>

\* The first lines of strategy.process: an entry the strategy needs is
\* missing, it returns an error result.
RejectConfig ==
  /\ pc \in {"read", "count"}
  /\ ~StrategyConfigOk(table_config)
  /\ pc' = "done"
  /\ result' = [status |-> "error", message |-> "not specified"]
  /\ UNCHANGED <<env, method, table_config, src, store, snapshots, locals, events,
                 start_store, history>>

\* An exception inside strategy.process (a query that fails, an object-store
\* read that raises something other than S3Error): process_table catches it
\* and returns an error result; the locals of process are gone.
RaiseInStrategy ==
  /\ pc \in {"read", "count", "part", "scan"}
  /\ pc' = "done"
  /\ result' = ErrorResult
  /\ ResetLocals
  /\ touched' = [NoTouch EXCEPT !.last = touched.last \cup touched.read]
  /\ UNCHANGED <<writer, method, table_config, src, store, snapshots, events, start_store, history>>

\* The batches a cursor can yield next: BatchSize rows, or what is left.
NextBatches(rows) ==
  {b \in SUBSET rows :
     Cardinality(b) = IF Cardinality(rows) < BatchSize THEN Cardinality(rows)
                      ELSE BatchSize}

\* ------------------------------------------------------------------ hash strategy
\* HashCDCStrategy.process, lines 33-47: read hash_state, open the scan.
HashRead ==
  /\ pc = "read" /\ method = "hash"
  /\ StrategyConfigOk(table_config)
  /\ \E o \in GetOutcomes :
       /\ previous_hashes' = RowHashesOf(retrieve_state(store, HashKey, o))
       /\ prev_basis' = IF o = "ok" /\ HashKey \in DOMAIN store THEN basis ELSE NoBasis
  /\ cursor' = src
  /\ events' = AddEvent(events, "read")
  /\ pc' = "scan"
  /\ UNCHANGED <<env, method, table_config, src, store, snapshots, current_hashes, changes,
                 last_timestamp, latest_timestamp, ts_changes, partition_id,
                 num_partitions, result, start_store, basis, settled, lost,
                 emitted, io_failed>>

\* Lines 47-69: one batch of the scan.
HashBatch ==
  /\ pc = "scan" /\ method = "hash" /\ cursor # {}
  /\ \E batch \in NextBatches(cursor) :
       LET acc == CompareRows(InOrder(batch), previous_hashes,
                              [cur |-> current_hashes, changes |-> changes])
       IN /\ current_hashes' = acc.cur
          /\ changes' = acc.changes
          /\ cursor' = cursor \ batch
  /\ events' = AddEvent(events, "scan")
  /\ UNCHANGED <<env, method, table_config, src, store, snapshots, pc, previous_hashes, last_timestamp,
                 latest_timestamp, ts_changes, partition_id, num_partitions, result,
                 start_store, history>>

\* Lines 71-95: the scan is over; deleted rows, store_state, the result
\* (process returns, its locals are gone).
HashFinish ==
  /\ pc = "scan" /\ method = "hash" /\ cursor = {}
  /\ LET final == [changes EXCEPT
                     !.deleted = @ \o DeletedOf(previous_hashes, current_hashes)]
     IN /\ result' = [status |-> "success", method |-> "hash",
                      changes |-> ChangeCounts(final),
                      added |-> final.added, modified |-> final.modified,
                      deleted |-> final.deleted]
  /\ \E o \in PutOutcomes :
       /\ store' = store_state(store, HashKey, [row_hashes |-> current_hashes], o)
       /\ basis' = IF o = "ok" THEN [set |-> TRUE, rows |-> src] ELSE basis
       /\ events' = AddEvent(events, IF o = "ok" THEN "write" ELSE "write_failed")
  /\ pc' = "snapshot"
  /\ ResetLocals
  /\ UNCHANGED <<env, method, table_config, src, snapshots, start_store, prev_basis, settled, lost,
                 emitted, io_failed>>

\* ------------------------------------------------------------------ timestamp strategy
\* TimestampCDCStrategy.process, lines 28-45: read timestamp_state, open the
\* scan with the where clause.
TsRead ==
  /\ pc = "read" /\ method = "timestamp"
  /\ StrategyConfigOk(table_config)
  /\ \E o \in GetOutcomes :
       LET last == LastTimestampOf(retrieve_state(store, TsKey, o))
       IN /\ io_failed' = (io_failed \/ o # "ok")
          /\ IF HasWhereClause(last) /\ ~IsTsLiteral(last)
             THEN /\ last_timestamp' = NoneStr
                  /\ latest_timestamp' = NoneStr
                  /\ cursor' = {}
                  /\ pc' = "done"
                  /\ result' = ErrorResult
             ELSE /\ last_timestamp' = last
                  /\ latest_timestamp' = last
                  /\ cursor' = {r \in src : WhereClause(r, last)}
                  /\ pc' = "scan"
                  /\ result' = result
  /\ events' = AddEvent(events, "read")
  /\ UNCHANGED <<env, method, table_config, src, store, snapshots, previous_hashes, current_hashes,
                 changes, ts_changes, partition_id, num_partitions,
                 start_store, basis, prev_basis, settled, lost, emitted>>

\* Lines 42-56: one batch.
TsBatch ==
  /\ pc = "scan" /\ method = "timestamp" /\ cursor # {}
  /\ \E batch \in NextBatches(cursor) :
       /\ latest_timestamp' = TrackLatest(latest_timestamp, BatchMaxTimestamp(batch))
       /\ ts_changes' = ts_changes \o InOrder(batch)
       /\ cursor' = cursor \ batch
  /\ events' = AddEvent(events, "scan")
  /\ UNCHANGED <<env, method, table_config, src, store, snapshots, pc, previous_hashes, current_hashes,
                 changes, last_timestamp, partition_id, num_partitions, result,
                 start_store, history>>

\* if latest_timestamp and latest_timestamp != last_timestamp
StoresTimestamp(latest, last) ==
  latest # NoneStr /\ latest # <<>> /\ latest # last

\* Lines 58-74: store the watermark when it moved; the result (process
\* returns, its locals are gone).
TsFinish ==
  /\ pc = "scan" /\ method = "timestamp" /\ cursor = {}
  /\ IF StoresTimestamp(latest_timestamp, last_timestamp)
     THEN \E o \in PutOutcomes :
            /\ store' = store_state(store, TsKey,
                                    [last_timestamp |-> latest_timestamp], o)
            /\ events' = AddEvent(events, IF o = "ok" THEN "write" ELSE "write_failed")
            /\ io_failed' = (io_failed \/ o # "ok")
     ELSE UNCHANGED <<store, events, io_failed>>
  /\ result' = [status |-> "success", method |-> "timestamp",
                last_timestamp |-> last_timestamp,
                new_timestamp |-> latest_timestamp,
                changes_count |-> Len(ts_changes), changes |-> ts_changes]
  /\ pc' = "snapshot"
  /\ ResetLocals
  /\ UNCHANGED <<env, method, table_config, src, snapshots, start_store, basis, prev_basis,
                 settled, lost, emitted>>

\* ------------------------------------------------------------------ hash-partition strategy
\* HashPartitionCDCStrategy.process, lines 34-51: COUNT(*) and the partition
\* count.
PartCount ==
  /\ pc = "count" /\ method = "hash-partition"
  /\ StrategyConfigOk(table_config)
  /\ num_partitions' = NumPartitions(Cardinality(src), PartitionSize)
  /\ partition_id' = 0
  /\ changes' = EmptyChanges
  /\ pc' = "part"
  /\ UNCHANGED <<env, method, table_config, src, store, snapshots, previous_hashes, current_hashes,
                 cursor, last_timestamp, latest_timestamp, ts_changes, result,
                 events, start_store, history>>

\* _process_partition for partition_id (lines 106-163) and the merge of its
\* changes (lines 63-66).
PartProcess ==
  /\ pc = "part" /\ method = "hash-partition" /\ partition_id < num_partitions
  /\ \A r \in src : ~PartitionRaises(r)
  /\ \E og \in GetOutcomes, op \in PutOutcomes :
       LET state_key == PartKey(partition_id, num_partitions)
           prev == RowHashesOf(retrieve_state(store, state_key, og))
           rows == {r \in src : PartitionClause(r, num_partitions, partition_id)}
           acc == CompareRows(InOrder(rows), prev,
                              [cur |-> EmptyMap, changes |-> EmptyChanges])
           part == [acc.changes EXCEPT !.deleted = @ \o DeletedOf(prev, acc.cur)]
       IN /\ store' = store_state(store, state_key, [row_hashes |-> acc.cur], op)
          /\ changes' = MergeChanges(changes, part)
          /\ touched' = [read |-> touched.read \cup {state_key},
                         written |-> IF op = "ok"
                                     THEN touched.written \cup {state_key}
                                     ELSE touched.written,
                         last |-> touched.last,
                         old |-> IF og = "ok" /\ state_key \in DOMAIN store
                                      /\ state_key \notin touched.last
                                 THEN touched.old \cup {state_key}
                                 ELSE touched.old]
          /\ events' = AddEvent(AddEvent(AddEvent(events, "read"), "scan"),
                                IF op = "ok" THEN "write" ELSE "write_failed")
  /\ partition_id' = partition_id + 1
  /\ UNCHANGED <<writer, method, table_config, src, snapshots, pc, previous_hashes, current_hashes, cursor,
                 last_timestamp, latest_timestamp, ts_changes, num_partitions,
                 result, start_store, history>>

\* Lines 68-81: every partition is done; the result (process returns, its
\* locals are gone).
PartDone ==
  /\ pc = "part" /\ method = "hash-partition" /\ partition_id = num_partitions
  /\ result' = [status |-> "success", method |-> "hash-partition",
                partitions |-> num_partitions,
                changes |-> ChangeCounts(changes),
                added |-> changes.added, modified |-> changes.modified,
                deleted |-> changes.deleted]
  /\ pc' = "snapshot"
  /\ ResetLocals
  /\ touched' = [NoTouch EXCEPT !.last = touched.read]
  /\ UNCHANGED <<writer, method, table_config, src, store, snapshots, events, start_store, history>>

\* ------------------------------------------------------------------ snapshot, return
\* result["snapshot"] = snapshot_result
WithSnapshot(res, snap) ==
  [k \in DOMAIN res \cup {"snapshot"} |-> IF k = "snapshot" THEN snap ELSE res[k]]

\* process_table, lines 75-81: the strategy returned success, so _save_snapshot
\* runs: save_changes_snapshot on the buckets of the result, every
\* store_snapshot call of it ending well or not.
SaveSnapshot ==
  /\ pc = "snapshot"
  /\ result.status = "success" /\ snapshot_enabled
  /\ LET ch == SnapshotChanges(result)
     IN \E outcome \in [SeqSet(Attempted(ch)) -> OutcomesOf(snapshot_format)] :
          LET out == save_changes_snapshot(ch, snapshot_format, now, outcome)
          IN /\ snapshots' = PutAll(<<>>, out.puts)
             /\ result' = WithSnapshot(result, out.result)
             /\ events' = IF out.puts = <<>> THEN events
                          ELSE AddEvent(events, "put")
  /\ pc' = "done"
  /\ UNCHANGED <<env, method, table_config, src, store, locals, start_store, history>>

\* The rows a result carries, whatever its method.
ReportedRows(res) ==
  IF res.method = "timestamp" THEN SeqSet(res.changes)
  ELSE SeqSet(res.added) \cup SeqSet(res.modified)

\* Every state write of the run so far went through.
StateWritten ==
  "write" \in SeqSet(events) /\ "write_failed" \notin SeqSet(events)

\* process_table returns its result to the caller.
Return ==
  /\ pc = "done"
  /\ pc' = "idle"
  /\ settled' = (result.status = "success")
  /\ emitted' = IF result.status = "success" /\ method = "timestamp"
                THEN emitted \cup SeqSet(result.changes) ELSE emitted
  /\ ResetLocals
  /\ result' = None
  /\ events' = <<>>
  /\ snapshots' = <<>>
  /\ start_store' = store
  /\ prev_basis' = NoBasis
  /\ UNCHANGED <<env, method, table_config, src, store, basis, lost, io_failed>>

\* The process dies (killed worker, power loss) inside a run: what it had in
\* memory is gone, the object store keeps what was put.
Crash ==
  /\ pc \in {"read", "count", "part", "scan", "snapshot"}
  /\ pc' = "idle"
  /\ lost' = IF pc = "snapshot" /\ StateWritten
             THEN lost \cup ReportedRows(result) ELSE lost
  /\ settled' = FALSE
  /\ ResetLocals
  /\ result' = None
  /\ events' = <<>>
  /\ snapshots' = <<>>
  /\ start_store' = store
  /\ prev_basis' = NoBasis
  /\ touched' = [NoTouch EXCEPT !.last = touched.last \cup touched.read]
  /\ UNCHANGED <<writer, method, table_config, src, store, basis, emitted, io_failed>>

\* ------------------------------------------------------------------ the writer alone
\* ChangeSets a strategy can hand over: rows of a table without and with a
\* timestamp column, entries of deleted.
ChangeSets ==
  LET PlainRow == [id |-> IntV(1), name |-> StrV(<<"x">>)]
      StampedRow == [id |-> IntV(2), name |-> StrV(<<"x">>), updated_at |-> TsV(10)]
      DeletedEntry == [primary_key |-> primary_key, value |-> <<"3">>]
  IN [added : {<<>>, <<StampedRow>>}, modified : {<<>>, <<PlainRow>>},
      deleted : {<<>>, <<DeletedEntry>>}]

\* Time passes.
Tick ==
  /\ now < MaxTick
  /\ now' = now + 1
  /\ UNCHANGED <<core, dag, run, snapshot_format, archive, call, calc>>

\* The artifacts among keys: the objects that are no metadata sibling.
Artifacts(keys) == {k \in keys : k.tail = ""}

\* CDCService._save_snapshot, lines 126-133, for any ChangeSet: the clock is
\* read once and save_changes_snapshot called with it, every store_snapshot
\* call of it ending one way or another.  No two calls read the same time.
SaveChangesSnapshot ==
  /\ pc = "idle"
  /\ (IF call = None THEN 0 ELSE call.seq) < MaxCalls
  /\ (IF call = None THEN -1 ELSE call.timestamp) < now
  /\ \E ch \in ChangeSets :
       \E outcome \in [SeqSet(Attempted(ch)) -> OutcomesOf(snapshot_format)] :
         LET out == save_changes_snapshot(ch, snapshot_format, now, outcome)
         IN /\ archive' = archive \cup {out.puts[i].key : i \in 1..Len(out.puts)}
            /\ call' = [seq |-> IF call = None THEN 1 ELSE call.seq + 1,
                        changes |-> ch, timestamp |-> now,
                        put_failed |-> \E b \in DOMAIN outcome : outcome[b] # "ok",
                        puts |-> [i \in 1..Len(out.puts) |-> out.puts[i].key],
                        existed |-> {out.puts[i].key : i \in 1..Len(out.puts)}
                                      \cap archive,
                        result |-> out.result]
  /\ UNCHANGED <<core, dag, run, snapshot_format, now, calc>>

\* ------------------------------------------------------------------ the partition plan alone

\* HashPartitionCDCStrategy.process, lines 40-45, for any row count and
\* partition size; previous is the count of partitions the run before used.
CountPartitions ==
  /\ pc = "idle"
  /\ \E total_rows \in 0..MaxTotal, partition_size \in 1..MaxPartitionSize :
       calc' = [op |-> "count", total_rows |-> total_rows,
                partition_size |-> partition_size,
                previous |-> IF calc # None /\ calc.op = "count"
                             THEN calc.num_partitions ELSE 0,
                num_partitions |-> NumPartitions(total_rows, partition_size)]
  /\ UNCHANGED <<core, dag, run, snapshot_format, now, archive, call>>

\* The partition clause of _process_partition, lines 116-117, evaluated on
\* one row for every partition_id of a run with total_partitions partitions.
SelectPartitions ==
  /\ pc = "idle"
  /\ \E pk \in (IntMin - 1)..(IntMax + 1), total_partitions \in 1..MaxPartitions :
       calc' = [op |-> "select", pk |-> pk, total_partitions |-> total_partitions,
                raises |-> PartitionRaises([id |-> IntV(pk)]),
                matches |-> {i \in 0..(total_partitions - 1) :
                               PartitionClause([id |-> IntV(pk)],
                                               total_partitions, i)}]
  /\ UNCHANGED <<core, dag, run, snapshot_format, now, archive, call>>

\* ------------------------------------------------------------------ the table loops
\* The entries under "tables" a configuration file can hold, whatever the
\* method (None stands for an empty entry).
ListedConfigs == UNION {TableConfigs(m) : m \in Methods}

\* How process_table ends on a table: with a result of this status, or
\* "raised" when an exception leaves it.  A strategy that raises is caught at
\* line 83 and gives an error result.
ProcessTableEnds(cfg) ==
  IF Dispatch(cfg) = "raise" THEN {"raised"}
  ELSE IF Dispatch(cfg) = "error" \/ ~StrategyConfigOk(cfg) THEN {"error"}
  ELSE {"success", "error"}

\* What the table loop of run_cdc logs for a table, lines 85-101: the status
\* of the result, or an error when anything was raised, be it by process_table
\* or by changes.get on the list a timestamp result holds under "changes".
Logged(cfg, end) ==
  IF end = "raised" \/ (end = "success" /\ cfg.method = "timestamp")
  THEN "error" ELSE end

\* CDCService.process_all_tables or run_cdc is entered with the tables of the
\* configuration.
BeginRun ==
  /\ run = None
  /\ \E entry \in {"process_all_tables", "run_cdc"}, n \in 1..MaxTables :
       \E tables \in [1..n -> ListedConfigs] :
         run' = [entry |-> entry, tables |-> tables, todo |-> tables,
                 report |-> <<>>, escaped |-> FALSE]
  /\ UNCHANGED <<core, dag, snapshot_format, now, archive, call, calc>>

\* One turn of the loop: process_table on the next table.  run_cdc catches
\* what it raises (line 100), process_all_tables (lines 96-99) does not.
LoopStep ==
  /\ run # None
  /\ ~run.escaped
  /\ run.todo # <<>>
  /\ \E end \in ProcessTableEnds(Head(run.todo)) :
       run' = IF end = "raised" /\ run.entry = "process_all_tables"
              THEN [run EXCEPT !.escaped = TRUE]
              ELSE [run EXCEPT
                      !.todo = Tail(@),
                      !.report = Append(@, IF run.entry = "run_cdc"
                                           THEN Logged(Head(run.todo), end)
                                           ELSE end)]
  /\ UNCHANGED <<core, dag, snapshot_format, now, archive, call, calc>>

\* ------------------------------------------------------------------ two runs on any rows
\* The hash strategy and the hash-partition strategy, each run twice with no
\* failure on the same two contents of a table, for any selector: rows whose
\* primary key is an integer, null or the empty string, or a table without
\* that column, with a text column and with or without a timestamp column.  The second content is the
\* first one unchanged, with a column of nulls added, with its last row
\* deleted, or with the name of its first row changed.  The hash strategy
\* sees the rows of a content as one pandas chunk, the hash-partition
\* strategy as the driver hands them over.
HashRuns ==
  /\ pc = "idle"
  /\ calc = None
  /\ \E n \in 0..MaxPk, cols \in {<<"*">>, <<"name">>, <<"updated_at", "name">>},
        partition_size \in 1..MaxPk,
        change \in {"same", "add_column", "delete", "update"} :
       LET Cells(i, nm, ts) == [id |-> i, name |-> nm, updated_at |-> ts]
           Row(i, nm, ts) ==
             [c \in {c \in {"id", "name", "updated_at"} : Cells(i, nm, ts)[c] # None}
                |-> Cells(i, nm, ts)[c]]
           Rows == {Row(i, nm, ts) :
                      i \in {IntV(p) : p \in Pks} \cup {NullV, StrV(<<>>), None},
                      nm \in {StrV(<<"x">>), NullV},
                      ts \in {None, NullV, TsV(10)}}
           init == [cur |-> EmptyMap, changes |-> EmptyChanges]
           WithDeleted(acc, prev) ==
             [cur |-> acc.cur,
              changes |-> [acc.changes EXCEPT !.deleted = DeletedOf(prev, acc.cur)]]
           \* HashCDCStrategy.process on these rows
           hash_run(rows, prev) ==
             WithDeleted(CompareRowsBy(cols,
                                       [i \in 1..Len(rows) |-> to_dict(rows[i], SeqSet(rows))],
                                       prev, init), prev)
           \* HashPartitionCDCStrategy.process: slot i of N holds prev[i]
           Count(rows) == NumPartitions(Len(rows), partition_size)
           part_run(rows, prev) ==
             LET slots == [i \in 0..(Count(rows) - 1) |->
                             WithDeleted(
                               CompareRowsBy(cols,
                                 SelectSeq(rows, LAMBDA r : PartitionClause(r, Count(rows), i)),
                                 prev[i], init), prev[i])]
                 merged(b) == Flatten([i \in 1..Count(rows) |-> slots[i - 1].changes[b]])
             IN [slots |-> [i \in 0..(Count(rows) - 1) |-> slots[i].cur],
                 changes |-> [added |-> merged("added"), modified |-> merged("modified"),
                              deleted |-> merged("deleted")]]
           \* the partition query fails on a key that is no integer
           Queryable(rows) ==
             \A i \in 1..Len(rows) :
               "id" \in DOMAIN rows[i] /\ rows[i].id.t \in {"int", "null"}
       IN \E rows1 \in [1..n -> Rows] :
            LET rows2 ==
                  CASE change = "same" -> rows1
                    [] change = "add_column" ->
                         [i \in 1..n |->
                            [c \in DOMAIN rows1[i] \cup {"updated_at"} |->
                               IF c = "updated_at" THEN NullV ELSE rows1[i][c]]]
                    [] change = "delete" -> SubSeq(rows1, 1, n - 1)
                    [] change = "update" ->
                         [i \in 1..n |->
                            IF i = 1
                            THEN [rows1[i] EXCEPT !.name = IF @ = NullV THEN StrV(<<"x">>)
                                                           ELSE NullV]
                            ELSE rows1[i]]
                hash1 == hash_run(rows1, EmptyMap)
                part1 == part_run(rows1, [i \in 0..(Count(rows1) - 1) |-> EmptyMap])
            IN /\ \A i, j \in 1..n :
                    /\ DOMAIN rows1[i] = DOMAIN rows1[j]
                    /\ ("id" \in DOMAIN rows1[i] /\ rows1[i].id = rows1[j].id) => i = j
               /\ change = "add_column" =>
                    \A i \in 1..n : "updated_at" \notin DOMAIN rows1[i]
               /\ change \in {"delete", "update"} => n > 0
               /\ calc' = [op |-> "runs", cols |-> cols, partition_size |-> partition_size,
                           change |-> change, rows1 |-> rows1, rows2 |-> rows2,
                           fingerprints |->
                             [i \in 1..n |->
                                [hash |-> calculate_row_hash(to_dict(rows1[i], SeqSet(rows1)), cols),
                                 partition |-> calculate_row_hash(rows1[i], cols)]],
                           hash1 |-> hash1,
                           hash2 |-> hash_run(rows2, hash1.cur),
                           partition |->
                             IF Queryable(rows1) /\ Queryable(rows2)
                                  /\ Count(rows1) = Count(rows2)
                             THEN [first |-> part1, second |-> part_run(rows2, part1.slots)]
                             ELSE None]
  /\ UNCHANGED <<core, dag, run, snapshot_format, now, archive, call>>

\* ------------------------------------------------------------------ state formats
\* StorageManager._get_format_handler: the table's snapshot_format when the
\* key contains "/snapshot" and the table has one ("": it has none), else
\* storage.format; a
\* name FORMAT_HANDLERS does not know falls back to the JSON handler.  A state
\* key is <datasource>/<table>/<slot>: it contains "/snapshot" when the name
\* of the table begins with snapshot.
get_format_handler(state_key, storage_format, table_format) ==
  LET format_type == IF state_key.table = "snapshots" /\ table_format # ""
                     THEN table_format ELSE storage_format
  IN IF format_type \in {"json", "parquet"} THEN format_type ELSE "json"

\* handler.store(data): the bytes of the main object and of its _metadata
\* sibling.  The parquet handler writes a table for a payload with a data
\* list and falls back to JsonFormatHandler.store for any other payload.
handler_store(handler, data) ==
  IF handler = "parquet" /\ "data" \in DOMAIN data
  THEN [main |-> [bytes |-> "parquet", value |-> data.data],
        metadata |-> [bytes |-> "json",
                      value |-> [k \in DOMAIN data \ {"data"} |-> data[k]]]]
  ELSE [main |-> [bytes |-> "json", value |-> data], metadata |-> None]

\* handler.retrieve(data_bytes, metadata_bytes=...): json.loads, or
\* pd.read_parquet and the metadata merged in; bytes of the other kind make
\* either one raise.
handler_retrieve(handler, main, metadata) ==
  IF main.bytes # handler THEN [raised |-> TRUE]
  ELSE IF handler = "json" THEN main.value
  ELSE IF metadata = None THEN [data |-> main.value]
  ELSE [k \in {"data"} \cup DOMAIN metadata.value |->
          IF k = "data" THEN main.value ELSE metadata.value[k]]

\* store_state(state_key, data) and then retrieve_state(state_key) on an
\* empty bucket, for the state values of the three strategies and a payload
\* with a data list, under every storage.format and snapshot_format.  (The
\* csv handler, utils/formats/csv_format.py, is left out; "xml" stands for a
\* name FORMAT_HANDLERS does not know.)
StateRoundTrip ==
  /\ pc = "idle"
  /\ calc = None
  /\ \E table \in {"t", "snapshots"},
        slot \in {HashKey, TsKey, PartKey(0, 1)},
        storage_format \in {"json", "parquet", "xml"},
        table_format \in {"", "json", "parquet"},
        put \in PutOutcomes :
       \E data \in {[row_hashes |-> m] :
                       m \in UNION {[ks -> {md5(<<>>), md5(<<"x">>)}] :
                                      ks \in SUBSET {<<"1">>, <<"2">>}}}
                    \cup {[last_timestamp |-> PyStr(TsV(n))] : n \in TsVals}
                    \cup {[data |-> <<>>, count |-> 0]} :
         LET state_key == [table |-> table, slot |-> slot]
             handler == get_format_handler(state_key, storage_format, table_format)
             objects == handler_store(handler, data)
         IN calc' = [op |-> "state", state_key |-> state_key,
                     storage_format |-> storage_format, table_format |-> table_format,
                     data |-> data, stored |-> (put = "ok"),
                     retrieved |-> IF put = "ok"
                                   THEN handler_retrieve(handler, objects.main,
                                                         objects.metadata)
                                   ELSE None]
  /\ UNCHANGED <<core, dag, run, snapshot_format, now, archive, call>>

\* ------------------------------------------------------------------ the command
\* scripts/run_cdc.py, main: the exit code of the process.  config_path is
\* "none" or "given"; file is "missing", "invalid" (no JSON) or "loaded"; setup
\* tells how the construction of the two managers ends: "ok", "s3error" (an
\* S3Error of bucket_exists, caught and logged) or "raised" (anything else,
\* such as a refused connection or a configuration section that is null);
\* ends tells how process_table ends on each table (the loop of lines 83-101
\* catches what it raises).  What nobody catches ends the interpreter with
\* code 1.
main(config_path, file, setup, ends) ==
  IF config_path = "none" THEN 1
  ELSE IF file # "loaded" THEN 1
  ELSE IF setup = "raised" THEN 1
  ELSE 0

\* The command is run once.
Main ==
  /\ pc = "idle"
  /\ \E config_path \in {"none", "given"}, file \in {"missing", "invalid", "loaded"},
        setup \in {"ok", "s3error", "raised"}, n \in 0..MaxTables :
       \E ends \in [1..n -> {"success", "error", "raised"}] :
         calc' = [op |-> "main", config_path |-> config_path, file |-> file,
                  setup |-> setup, ends |-> ends,
                  exit_code |-> main(config_path, file, setup, ends)]
  /\ UNCHANGED <<core, dag, run, snapshot_format, now, archive, call>>

\* ------------------------------------------------------------------ the DAG
\* The tasks of cdc_snapshot_diff: check_config, process_all_tables and one
\* process_table_<t> for each table of the configuration (tables are numbered).
TaskIds ==
  {[task |-> "check_config", table |-> 0], [task |-> "process_all_tables", table |-> 0]}
    \cup {[task |-> "process_table", table |-> t] : t \in 1..MaxTables}

\* The tables the run_cdc call of a task goes through, in order: all of them
\* (table_names is None) or the one of op_kwargs.
TaskTables(id) ==
  CASE id.task = "check_config" -> <<>>
    [] id.task = "process_all_tables" -> [i \in 1..MaxTables |-> i]
    [] id.task = "process_table" -> <<id.table>>

\* schedule_interval has passed: the scheduler starts a DAG run (catchup is
\* off, max_active_runs is not set, so the run before may still be going on).
DagTrigger ==
  /\ Len(dag) < MaxDagRuns
  /\ dag' = Append(dag, [id \in TaskIds |-> [state |-> "scheduled", todo |-> <<>>]])
  /\ UNCHANGED <<core, snapshot_format, now, archive, call, calc, run>>

\* The executor starts a task whose upstream tasks have succeeded:
\* check_config has none, every other task has check_config alone.
TaskStart ==
  /\ \E r \in 1..Len(dag), id \in TaskIds :
       /\ dag[r][id].state = "scheduled"
       /\ id.task # "check_config" =>
            dag[r][[task |-> "check_config", table |-> 0]].state = "success"
       /\ dag' = [dag EXCEPT ![r][id] = [state |-> "running", todo |-> TaskTables(id)]]
  /\ UNCHANGED <<core, snapshot_format, now, archive, call, calc, run>>

\* A running task goes on: process_table on the table at the head returns,
\* or the callable is over (test -f of check_config may fail).
TaskStep ==
  /\ \E r \in 1..Len(dag), id \in TaskIds :
       /\ dag[r][id].state = "running"
       /\ IF dag[r][id].todo # <<>>
          THEN dag' = [dag EXCEPT ![r][id].todo = Tail(@)]
          ELSE \E end \in (IF id.task = "check_config"
                            THEN {"success", "failed"} ELSE {"success"}) :
                 dag' = [dag EXCEPT ![r][id].state = end]
  /\ UNCHANGED <<core, snapshot_format, now, archive, call, calc, run>>

Next ==
  \/ Insert \/ Update \/ Delete
  \/ Start \/ RaiseInStrategy
  \/ HashRead \/ HashBatch \/ HashFinish
  \/ TsRead \/ TsBatch \/ TsFinish
  \/ PartCount \/ PartProcess \/ PartDone
  \/ SaveSnapshot \/ Return \/ Crash
  \/ Tick \/ SaveChangesSnapshot
  \/ CountPartitions \/ SelectPartitions
  \/ RejectConfig
  \/ BeginRun \/ LoopStep
  \/ DagTrigger \/ TaskStart \/ TaskStep
  \/ Main \/ HashRuns \/ StateRoundTrip

Spec == Init /\ [][Next]_vars

\* One specification per method: the same actions, the table's method fixed.
Common ==
  \/ Insert \/ Update \/ Delete
  \/ Start \/ RaiseInStrategy
  \/ SaveSnapshot \/ Return \/ Crash

InitHash == Init /\ method = "hash" /\ table_config = FullConfig(method) /\ snapshot_format = "json"
SpecHash == InitHash /\ [][Common \/ HashRead \/ HashBatch \/ HashFinish]_vars

InitTs == Init /\ method = "timestamp" /\ table_config = FullConfig(method) /\ snapshot_format = "json"
SpecTs == InitTs /\ [][Common \/ TsRead \/ TsBatch \/ TsFinish]_vars

InitPart == Init /\ method = "hash-partition" /\ table_config = FullConfig(method) /\ snapshot_format = "json"
SpecPart == InitPart /\ [][Common \/ PartCount \/ PartProcess \/ PartDone]_vars

\* The two hash-based methods together.
InitHashes == Init /\ method \in {"hash", "hash-partition"} /\ table_config = FullConfig(method) /\ snapshot_format = "json"
SpecHashes ==
  InitHashes /\ [][Common \/ HashRead \/ HashBatch \/ HashFinish
                      \/ PartCount \/ PartProcess \/ PartDone]_vars

\* Every method and every table configuration, the snapshot format fixed.
InitConfig == Init /\ snapshot_format = "json"
SpecConfig ==
  InitConfig /\ [][Common \/ RejectConfig
                      \/ HashRead \/ HashBatch \/ HashFinish
                      \/ TsRead \/ TsBatch \/ TsFinish
                      \/ PartCount \/ PartProcess \/ PartDone]_vars

\* The machines below leave the table alone: its method, configuration and
\* snapshot format are fixed.
InitCalc == Init /\ method = "hash-partition" /\ table_config = FullConfig(method) /\ snapshot_format = "json"

\* The table loops by themselves.
SpecRun == InitCalc /\ [][BeginRun \/ LoopStep]_vars

\* The two strategies on any rows.
SpecRuns == InitCalc /\ [][HashRuns]_vars

\* A state value stored and read back.
SpecState == InitCalc /\ [][StateRoundTrip]_vars

\* The command by itself.
SpecMain == InitCalc /\ [][Main]_vars

\* The DAG by itself.
SpecDag == InitCalc /\ [][DagTrigger \/ TaskStart \/ TaskStep]_vars

\* The snapshot writer by itself, for every format: calls in the same second
\* and in later ones.
InitWriter == Init /\ method = "hash" /\ table_config = FullConfig(method)
SpecWriter == InitWriter /\ [][Tick \/ SaveChangesSnapshot]_vars

\* The partition plan by itself: the partition count of any table size and
\* the partition clause on any integer key.
SpecPlan == InitCalc /\ [][CountPartitions \/ SelectPartitions]_vars

\* ------------------------------------------------------------------ properties
Success == pc \in {"snapshot", "done"} /\ result.status = "success"
Finished == pc = "done" /\ result.status = "success"

\* C1: a hash run that starts from the hash_state an earlier run wrote reports
\* exactly as many added rows as primary keys were inserted since, as many
\* deleted as were deleted, and as many modified as surviving rows had a
\* hash_columns value changed (null being a value of its own).
C1_HashCompleteness ==
  (method = "hash" /\ Success /\ prev_basis.set) =>
    LET old == prev_basis.rows
        \* the rows that differ from the row of old with the same primary
        \* key in a hash_columns column
        changed == {p \in Ids(old) \cap Ids(src) :
                      \E i \in 1..Len(hash_columns) :
                        RowOf(old, p)[hash_columns[i]] # RowOf(src, p)[hash_columns[i]]}
    IN /\ Len(result.added) = Cardinality(Ids(src) \ Ids(old))
       /\ Len(result.deleted) = Cardinality(Ids(old) \ Ids(src))
       /\ Len(result.modified) = Cardinality(changed)

\* The primary-key values of a bucket, as str(): rows in added and modified,
\* {primary_key: pk} entries in deleted.
BucketPks(res, b) ==
  IF b = "deleted" THEN {res[b][i].value : i \in 1..Len(res[b])}
  ELSE {PkValue(res[b][i]) : i \in 1..Len(res[b])}

\* C2: in the result of a hash run and in the merged result of a
\* hash-partition run no primary-key value is in more than one of the buckets
\* added, modified and deleted.
C2_BucketDisjoint ==
  (method \in {"hash", "hash-partition"} /\ Success) =>
    /\ BucketPks(result, "added") \cap BucketPks(result, "modified") = {}
    /\ BucketPks(result, "added") \cap BucketPks(result, "deleted") = {}
    /\ BucketPks(result, "modified") \cap BucketPks(result, "deleted") = {}

\* A hash-partition run over two partitions has merged changes into two
\* different buckets.
C2_Witness ==
  /\ method = "hash-partition" /\ Success
  /\ result.partitions > 1
  /\ Cardinality({b \in SeqSet(Buckets) : Len(result[b]) > 0}) > 1

\* The result carries no change at all.
EmptyChangeSet(res) == ReportedRows(res) = {} /\ GetList(res, "deleted") = <<>>

\* C3: when the run before this one returned success and no source row changed
\* since, this run returns success with an empty ChangeSet, the snapshot
\* writer returns skipped and nothing is put under snapshots/.
C3_NoChangeIdempotent ==
  (Finished /\ settled) =>
    /\ EmptyChangeSet(result)
    /\ result.snapshot.status = "skipped"
    /\ snapshots = <<>>

\* The place of an I/O step in the order read, scan, write, put.
StepRank(e) ==
  CASE e = "read" -> 1
    [] e = "scan" -> 2
    [] e \in {"write", "write_failed"} -> 3
    [] e = "put" -> 4

\* C4: the steps of one run come in the order read previous state, scan the
\* table, write new state, put snapshot artifacts, and no artifact is put
\* before the run's new state was written.
C4_StepOrder ==
  /\ \A i, j \in 1..Len(events) : i < j => StepRank(events[i]) < StepRank(events[j])
  /\ "put" \in SeqSet(events) => "write" \in SeqSet(events)

\* C5: a run that has not finished its scan has written no state slot and no
\* snapshot artifact, so stopping there leaves the pre-run state whole.
C5_NoWriteBeforeScanEnds ==
  (\/ pc \in {"read", "count"}
   \/ pc = "scan" /\ cursor # {}
   \/ pc = "part" /\ partition_id < num_partitions) =>
    store = start_store /\ snapshots = <<>>

\* C6: rows whose delta was dropped by a crash between the state write and
\* the snapshot write are reported by no later run while they stay unchanged.
C6_LostStaysLost ==
  Success => ReportedRows(result) \cap lost = {}

\* C7: the rows a timestamp run returns reach the snapshot writer as the added
\* bucket, so a run that returns rows puts an added artifact holding them.
C7_TimestampRowsAdded ==
  (method = "timestamp" /\ Finished /\ Len(result.changes) > 0) =>
    \E k \in DOMAIN snapshots :
       k.suffix = "added" /\ k.tail = "" /\ snapshots[k].data = result.changes

\* The watermark a blob of timestamp_state holds, as a column value.
StoredTimestamp(st) == LastTimestampOf(retrieve_state(st, TsKey, "ok"))

\* C8: after a successful timestamp run the stored last_timestamp is the
\* maximum of the last_timestamp stored before the run and the
\* timestamp_column values of the rows the run scanned.
C8_WatermarkIsMax ==
  (method = "timestamp" /\ Success) =>
    LET before == StoredTimestamp(start_store)
        seen == {r[timestamp_column].n :
                   r \in {x \in SeqSet(result.changes) : x[timestamp_column].t = "ts"}} \cup
                  (IF IsTsLiteral(before) THEN {TsParse(before)} ELSE {})
    IN seen # {} => StoredTimestamp(store) = PyStr(TsV(MaxOf(seen)))

\* C9: with no state-store failure, a successful timestamp run with no stored
\* watermark returns every row, one with stored watermark last returns exactly
\* the rows whose timestamp_column is greater than last, and it returns no row
\* that an earlier successful run returned and that was not changed since.
C9_TimestampEmission ==
  (method = "timestamp" /\ Success /\ ~io_failed) =>
    LET before == StoredTimestamp(start_store)
        rows == SeqSet(result.changes)
    IN /\ before = NoneStr => rows = src
       /\ before # NoneStr =>
            rows = {r \in src : /\ r[timestamp_column].t = "ts"
                                /\ r[timestamp_column].n > TsParse(before)}
       /\ rows \cap emitted = {}
       /\ Len(result.changes) = Cardinality(rows)

\* A run that started from a stored watermark returned a row while rows of
\* earlier runs are still in the table unchanged.
C9_Witness ==
  /\ method = "timestamp" /\ Success /\ ~io_failed
  /\ StoredTimestamp(start_store) # NoneStr
  /\ Len(result.changes) > 0
  /\ emitted # {}

\* C10: a successful run with an empty ChangeSet puts no snapshot artifact and
\* still writes the table's state slot.
C10_EmptyRunWritesState ==
  (Finished /\ EmptyChangeSet(result)) =>
    /\ snapshots = <<>>
    /\ "write" \in SeqSet(events)

\* ------------------------------------------------------------------ snapshot writer properties
\* The puts of the last call that made the artifact of bucket b (or the
\* summary), metadata siblings left aside.
ArtifactsPut(b) ==
  {i \in 1..Len(call.puts) : call.puts[i].suffix = b /\ call.puts[i].tail = ""}


\* C11: with the object store taking every put, a call of
\* save_changes_snapshot writes exactly one artifact for each non-empty bucket,
\* none for an empty bucket, and one summary manifest exactly when a bucket is
\* non-empty; with all buckets empty it writes nothing and returns skipped.
C11_ArtifactPerBucket ==
  (call # None /\ ~call.put_failed) =>
    /\ \A b \in SeqSet(Buckets) :
         Cardinality(ArtifactsPut(b)) = IF Len(call.changes[b]) > 0 THEN 1 ELSE 0
    /\ Cardinality(ArtifactsPut("summary")) =
         IF has_changes(call.changes) THEN 1 ELSE 0
    /\ ~has_changes(call.changes) =>
         call.puts = <<>> /\ call.result.status = "skipped"

\* The positions in the puts of the last call that are artifacts.
ArtifactPuts == {i \in 1..Len(call.puts) : call.puts[i].tail = ""}

C13_WriteOnce ==
  call # None => Artifacts(call.existed) = {}

\* ------------------------------------------------------------------ partition plan properties
\* C14: for an integer primary key of any sign and any count of partitions
\* N >= 1, the partition clause MOD(ABS(pk), N) = i holds of the row for
\* exactly one i in 0..N-1.
C14_OnePartitionPerRow ==
  (calc # None /\ calc.op = "select") => Cardinality(calc.matches) = 1

\* The state slots of a run with n partitions.
SlotsOf(n) == {PartKey(i, n) : i \in 0..(n - 1)}

\* C15: a hash-partition run with N partitions reads and writes no state slot
\* but partition_i_of_N for i in 0..N-1, and when its last partition is done
\* it has read every one of them and written every one of them.
C15_SlotsOfThisCount ==
  (method = "hash-partition" /\ pc = "part") =>
    /\ touched.read \subseteq SlotsOf(num_partitions)
    /\ touched.written \subseteq SlotsOf(num_partitions)
    /\ partition_id = num_partitions =>
         /\ touched.read = SlotsOf(num_partitions)
         /\ touched.written = SlotsOf(num_partitions)

\* C16: for every row count total >= 0 and every partition_size >= 1 the
\* count of partitions is max(1, ceil(total / partition_size)), whatever
\* count the run before used: the least n >= 1 with n * partition_size >= total,
\* which is 1 for an empty table and total / partition_size for an exact
\* multiple.
C16_PartitionCount ==
  (calc # None /\ calc.op = "count") =>
    /\ calc.num_partitions >= 1
    /\ calc.num_partitions * calc.partition_size >= calc.total_rows
    /\ calc.num_partitions > 1 =>
         (calc.num_partitions - 1) * calc.partition_size < calc.total_rows
    /\ calc.total_rows = 0 => calc.num_partitions = 1
    /\ (calc.total_rows > 0 /\ calc.total_rows % calc.partition_size = 0) =>
         calc.num_partitions * calc.partition_size = calc.total_rows

\* A count that is no exact multiple, after a run that used another count.
C16_Witness ==
  /\ calc # None /\ calc.op = "count"
  /\ calc.partition_size > 1
  /\ calc.total_rows % calc.partition_size # 0
  /\ calc.num_partitions > 1
  /\ calc.previous > 0 /\ calc.previous # calc.num_partitions

\* ------------------------------------------------------------------ orchestrator properties
\* A table with no configuration, with a method string that is none of the
\* three, or without an entry its method needs.
Misconfigured(cfg) ==
  IF cfg = None THEN TRUE
  ELSE /\ cfg.method # NullMethod
       /\ \/ cfg.method \notin Methods
          \/ cfg.method = "timestamp" /\ cfg.timestamp_column = ""
          \/ /\ cfg.method \in {"hash", "hash-partition"}
             /\ cfg.primary_key = "" \/ cfg.hash_columns = <<>>

\* C18: processing a misconfigured table ends with an error result, and
\* neither queries the source table nor puts a state slot or a snapshot
\* artifact.
C18_MisconfiguredTable ==
  Misconfigured(table_config) =>
    /\ pc \in {"idle", "read", "count", "done"}
    /\ events = <<>>
    /\ store = <<>> /\ snapshots = <<>>
    /\ pc = "done" => result.status = "error"

\* A table with rows whose strategy has refused its configuration.
C18_Witness ==
  /\ Misconfigured(table_config) /\ table_config # None
  /\ table_config.method \in Methods
  /\ pc = "done" /\ result.status = "error"
  /\ src # {}

\* C17: whatever fails while a table is processed, no exception leaves
\* process_table, process_all_tables or the loop of run_cdc, the loop goes on
\* to the remaining tables, and when it ends the report holds one entry per
\* table.
C17_FailureIsolation ==
  run # None =>
    /\ ~run.escaped
    /\ run.todo = <<>> => Len(run.report) = Len(run.tables)

\* ------------------------------------------------------------------ I/O failure properties
\* C19: a hash run in which the read or the write of hash_state failed does
\* not end in success, leaves the state slot as it was and puts no snapshot
\* artifact.  (The read failed when the run asked for hash_state, the slot was
\* there, and the strategy got None.)
C19_StateFailureFailsTable ==
  (pc \in {"snapshot", "done"}
     /\ \/ ("read" \in SeqSet(events) /\ HashKey \in DOMAIN start_store
                                       /\ prev_basis = NoBasis)
        \/ "write_failed" \in SeqSet(events)) =>
    /\ result.status # "success"
    /\ store = start_store
    /\ snapshots = <<>>

\* C20: when a put of a snapshot artifact fails after the strategy succeeded,
\* the result of the table has status success with a snapshot sub-field of
\* status error, and the state the strategy wrote stays.
C20_SnapshotFailureReported ==
  (/\ pc = "done" /\ result.status = "success" /\ "snapshot" \in DOMAIN result
   /\ has_changes(SnapshotChanges(result))
   /\ Cardinality(Artifacts(DOMAIN snapshots))
        < Len(Attempted(SnapshotChanges(result)))) =>
    /\ result.status = "success"
    /\ result.snapshot.status = "error"
    /\ StateWritten => basis = [set |-> TRUE, rows |-> src]

\* ------------------------------------------------------------------ scheduling properties
\* C21: under the DAG, at every moment at most one task of the DAG runs
\* started so far is processing a given table.
C21_OneRunPerTable ==
  \A t \in 1..MaxTables :
    Cardinality({x \in (1..Len(dag)) \X TaskIds :
                   /\ dag[x[1]][x[2]].state = "running"
                   /\ dag[x[1]][x[2]].todo # <<>>
                   /\ Head(dag[x[1]][x[2]].todo) = t}) <= 1

\* C22: when save_changes_snapshot has returned, the artifacts due for the run
\* (one per non-empty bucket and the summary) are all in the object store or
\* none of them is, and the state the run wrote has been stored.
C22_ArtifactsAllOrNone ==
  (pc = "done" /\ "snapshot" \in DOMAIN result) =>
    LET written == Cardinality(Artifacts(DOMAIN snapshots))
    IN /\ written = 0 \/ written = Len(Attempted(SnapshotChanges(result)))
       /\ StateWritten

\* C23: run_cdc ends with exit code 1 when the configuration cannot be loaded
\* (no path, no file, no JSON) and with exit code 0 in every other case.
C23_ExitCode ==
  (calc # None /\ calc.op = "main") =>
    calc.exit_code = IF calc.config_path = "none" \/ calc.file # "loaded" THEN 1 ELSE 0


\* C24: with hash_columns = ["*"], when a column that is null in every row is
\* added between two consecutive hash runs and nothing else changes, the
\* second run reports no added, no modified and no deleted row.
C24_NullColumnNoChange ==
  (calc # None /\ calc.op = "runs" /\ calc.cols = <<"*">> /\ calc.change = "add_column") =>
    calc.hash2.changes = EmptyChanges


\* C25: for every row and selector the fingerprint is the digest of the text
\* values joined by '|', over all columns in ascending column-name order under
\* the wildcard and over the selector's columns in the selector's order
\* otherwise, a null rendered as the empty string; the hash strategy and the
\* hash-partition strategy give the same fingerprint for the same row.
C25_CanonicalFingerprint ==
  (calc # None /\ calc.op = "runs") =>
    \A i \in 1..Len(calc.rows1) :
      LET row == calc.rows1[i]
          used == IF calc.cols = <<"*">> THEN SortedColumns(row)
                  ELSE SelectSeq(calc.cols, LAMBDA c : c \in DOMAIN row)
          text == Join(<<"|">>, [k \in 1..Len(used) |->
                                  IF row[used[k]] = NullV THEN <<>> ELSE PyStr(row[used[k]])])
      IN /\ calc.fingerprints[i].hash = md5(text)
         /\ calc.fingerprints[i].partition = md5(text)


\* C26: in the hash and the hash-partition strategy a scanned row whose primary
\* key is null, absent or the empty string is skipped: a first run reports as
\* added, and stores in row_hashes, the rows with a key and no other row.
C26_EmptyKeySkipped ==
  (calc # None /\ calc.op = "runs") =>
    LET keyed == Cardinality({i \in 1..Len(calc.rows1) :
                               /\ "id" \in DOMAIN calc.rows1[i]
                               /\ calc.rows1[i].id \notin {NullV, StrV(<<>>)}})
    IN /\ Len(calc.hash1.changes.added) = keyed
       /\ Cardinality(DOMAIN calc.hash1.cur) = keyed
       /\ calc.partition # None =>
            /\ Len(calc.partition.first.changes.added) = keyed
            /\ Cardinality(UNION {DOMAIN calc.partition.first.slots[k] :
                                    k \in DOMAIN calc.partition.first.slots}) = keyed


\* C27: after every successful hash run the row_hashes of hash_state hold one
\* entry per primary-key text of the rows scanned in that run, mapped to the
\* fingerprint of that row, and no entry for a key the scan did not see.
C27_StateIsTheScan ==
  (method = "hash" /\ Success) =>
    RowHashesOf(retrieve_state(store, HashKey, "ok")) =
      [k \in {PkValue(r) : r \in src} |->
         calculate_row_hash(CHOOSE r \in src : PkValue(r) = k, hash_columns)]


\* C28: over any sequence of hash-partition runs in which the partition count
\* varies, every previous-state slot a run reads and compares against is
\* absent or was written by the run just before it; no run compares against a
\* slot an older run left.  (A slot the run before went through counts as
\* written by it even when its put failed.)
C28_NoStaleSlot ==
  method = "hash-partition" => touched.old = {}


\* C29: for every state key and state value of a strategy and every configured
\* storage format, retrieve_state(key) after a successful store_state(key,
\* value) with no write in between returns a value equal to value.
C29_StateRoundTrip ==
  (calc # None /\ calc.op = "state" /\ calc.stored /\ "data" \notin DOMAIN calc.data) =>
    calc.retrieved = calc.data


\* C30: for a table with integer primary keys whose partition count is the
\* same in two consecutive runs, the hash-partition strategy reports the same
\* sets of added, modified and deleted primary keys as the hash strategy does
\* for the same two table contents, and the union of its slots' row_hashes
\* equals the hash strategy's row_hashes.
C30_PartitionMatchesHash ==
  (calc # None /\ calc.op = "runs" /\ calc.partition # None
     /\ \A i \in 1..Len(calc.rows1) : calc.rows1[i].id.t = "int") =>
    LET pks(rows) == {PkValue(rows[i]) : i \in 1..Len(rows)}
        slots == calc.partition.second.slots
        parts == calc.partition.second.changes
    IN /\ pks(parts.added) = pks(calc.hash2.changes.added)
       /\ pks(parts.modified) = pks(calc.hash2.changes.modified)
       /\ SeqSet(parts.deleted) = SeqSet(calc.hash2.changes.deleted)
       /\ calc.hash2.cur =
            [k \in UNION {DOMAIN slots[i] : i \in DOMAIN slots} |->
               slots[CHOOSE i \in DOMAIN slots : k \in DOMAIN slots[i]][k]]

====
